---- MODULE Spec2Model ----
(***************************************************************************)
(* Model of the QuantConnect dashboard scripts:                             *)
(*   fetch_data.py        authenticate, poll live/backtest data, write     *)
(*                        data/dashboard.json                              *)
(*   test_credentials.py  three-step credential check                      *)
(*   debug_live_data.py   dump of the live endpoints                       *)
(* Every script is sequential; one action models one blocking HTTP         *)
(* exchange together with the local code that follows it, up to the next   *)
(* request.  Python dicts are functions whose DOMAIN is the set of keys     *)
(* present; JSON leaf values are tagged tuples (PyNone, PyNum(n),          *)
(* PyStr(chars), PyNaN); text that is parsed is a sequence of              *)
(* one-character strings.                                                  *)
(***************************************************************************)
EXTENDS Integers, Sequences, FiniteSets, TLC

\* ------------------------------------------------------------------ bounds
MaxStrLen == 3          \* longest statistic string that is parsed
MaxClock == 2           \* the clock, in half seconds, runs up to MaxClock
MaxLive == 2            \* longest live/list response
MaxProjects == 2        \* longest projects/read response
MaxBacktests == 4       \* longest backtests/read response
MaxFollowUps == 5       \* follow-up requests the returned lists may call for

\* ------------------------------------------------------ Python value model
EmptyDict == <<>>
PyNone == <<"none">>
PyNaN == <<"nan">>
PyNum(n) == <<"num", n>>
PyStr(s) == <<"str", s>>
ValueError == <<"ValueError">>

\* dict.get(key, default)
Get(d, k, default) == IF k \in DOMAIN d THEN d[k] ELSE default

\* bool(v) of a leaf value: None, 0 and "" are falsy, NaN is truthy
Truthy(v) ==
  CASE v[1] = "none" -> FALSE
    [] v[1] = "num" -> v[2] # 0
    [] v[1] = "str" -> v[2] # <<>>
    [] OTHER -> TRUE

\* a or b
Or(a, b) == IF Truthy(a) THEN a ELSE b

\* sequence s without the elements of set cs  (str.replace(c, "") for c in cs)
RECURSIVE Remove(_, _)
Remove(s, cs) ==
  IF s = <<>> THEN <<>>
  ELSE IF Head(s) \in cs THEN Remove(Tail(s), cs)
       ELSE <<Head(s)>> \o Remove(Tail(s), cs)

\* str.strip(): leading and trailing blanks dropped, inner ones kept
RECURSIVE LStrip(_)
LStrip(s) == IF s # <<>> /\ Head(s) = " " THEN LStrip(Tail(s)) ELSE s

RECURSIVE RStrip(_)
RStrip(s) ==
  IF s # <<>> /\ s[Len(s)] = " " THEN RStrip(SubSeq(s, 1, Len(s) - 1)) ELSE s

Strip(s) == RStrip(LStrip(s))

Digits == {"0", "5"}
DigitVal(c) == IF c = "5" THEN 5 ELSE 0

RECURSIVE DecVal(_)
DecVal(s) ==
  IF s = <<>> THEN 0 ELSE 10 * DecVal(SubSeq(s, 1, Len(s) - 1)) + DigitVal(s[Len(s)])

\* float(text): blanks around the text are ignored, then an optional sign and
\* either digits or the word nan.  The result is PyNum, PyNaN, or ValueError
\* when float() raises.
PyFloat(s) ==
  LET t == Strip(s)
      signed == t # <<>> /\ Head(t) = "-"
      body == IF signed THEN Tail(t) ELSE t
  IN  IF body = <<"n", "a", "n">> THEN PyNaN
      ELSE IF body # <<>> /\ \A i \in 1..Len(body) : body[i] \in Digits
           THEN PyNum(IF signed THEN 0 - DecVal(body) ELSE DecVal(body))
           ELSE ValueError

\* safe_float(val, default=0.0)
safe_float(val) ==
  IF val[1] = "none" THEN PyNum(0)
  ELSE IF val[1] = "str"
       THEN LET f == PyFloat(Strip(Remove(val[2], {"%", "$", ","})))
            IN  IF f = ValueError THEN PyNum(0) ELSE f
       ELSE val

\* int(x) of a float: raises on NaN
PyIntRaises(f) == f[1] = "nan"
PyInt(f) == f[2]

\* extract_performance_stats(result): the record built at the return
\* statement, or [exception |-> ...] when the function raises.
equity_points(values) ==
  LET dicts == SelectSeq(values, LAMBDA point : point[1] = "dict")
  IN  [i \in 1..Len(dicts) |->
         [x |-> Get(dicts[i][2], "x", Get(dicts[i][2], "X", 0)),
          y |-> Get(dicts[i][2], "y", Get(dicts[i][2], "Y", 0))]]

DictOr(a, b) == IF DOMAIN a # {} THEN a ELSE b
SeqOr(a, b) == IF a # <<>> THEN a ELSE b

equity_curve(result) ==
  LET charts == DictOr(Get(result, "charts", EmptyDict),
                       DictOr(Get(result, "Charts", EmptyDict), EmptyDict))
  IN  IF "Strategy Equity" \notin DOMAIN charts THEN <<>>
      ELSE
        LET chart == charts["Strategy Equity"]
            equity_series == DictOr(Get(chart, "series", EmptyDict),
                                    Get(chart, "Series", EmptyDict))
        IN  IF DOMAIN equity_series = {} THEN <<>>
            ELSE
              LET equity_key == IF "Equity" \in DOMAIN equity_series THEN "Equity"
                                ELSE CHOOSE k \in DOMAIN equity_series : TRUE
                  values == SeqOr(Get(equity_series[equity_key], "values", <<>>),
                                  Get(equity_series[equity_key], "Values", <<>>))
              IN  equity_points(values)

extract_performance_stats(result) ==
  LET stats0 == Get(result, "statistics", EmptyDict)
      runtime0 == Get(result, "runtimeStatistics", EmptyDict)
      stats == IF DOMAIN stats0 = {} /\ "Statistics" \in DOMAIN result
               THEN result["Statistics"] ELSE stats0
      runtime_stats == IF DOMAIN runtime0 = {} /\ "RuntimeStatistics" \in DOMAIN result
                       THEN result["RuntimeStatistics"] ELSE runtime0
      S(k) == Get(stats, k, PyNone)
      R(k) == Get(runtime_stats, k, PyNone)
      T(k) == Get(result, k, PyNone)
      trades == safe_float(Or(Or(S("Total Trades"), S("Total Orders")), PyNum(0)))
  IN  IF PyIntRaises(trades) THEN [exception |-> "ValueError"]
      ELSE
        [totalReturn |-> safe_float(Or(Or(S("Total Net Profit"), R("Total Net Profit")),
                                       S("Net Profit"))),
         sharpeRatio |-> safe_float(S("Sharpe Ratio")),
         maxDrawdown |-> safe_float(Or(S("Drawdown"), S("Max Drawdown"))),
         winRate |-> safe_float(S("Win Rate")),
         profitFactor |-> safe_float(S("Profit-Loss Ratio")),
         totalTrades |-> PyNum(PyInt(trades)),
         equityCurve |-> equity_curve(result),
         startDate |-> Or(Or(T("created"), T("launched")), T("Launched")),
         endDate |-> Or(Or(T("completed"), R("Updated")), T("Stopped"))]

Raised(r) == "exception" \in DOMAIN r

\* ------------------------------------------------------------ HTTP layer
Range(f) == {f[i] : i \in DOMAIN f}

\* str(int(time.time())): the clock counts half seconds, int() truncates
Timestamp(now) == ToString(now \div 2)

\* sha256(text).hexdigest() and b64encode(text).decode(), as injective codes
\* of the text, which is the sequence of the pieces an f-string joins
sha256_hexdigest(text) == <<"sha256", text>>
b64encode(text) == <<"b64", text>>

\* fetch_data.get_auth_headers
fetch_data_get_auth_headers(user_id, api_token, now) ==
  LET timestamp == Timestamp(now)
      hash_bytes == sha256_hexdigest(<<api_token, ":", timestamp>>)
      credentials == <<user_id, ":", hash_bytes>>
      encoded == b64encode(credentials)
  IN  [Timestamp |-> timestamp,
       Authorization |-> <<"Basic ", encoded>>,
       ContentType |-> "application/json"]

\* test_credentials.get_auth_headers
test_credentials_get_auth_headers(user_id, api_token, now) ==
  LET timestamp == Timestamp(now)
      hash_bytes == sha256_hexdigest(<<api_token, ":", timestamp>>)
      credentials == <<user_id, ":", hash_bytes>>
      encoded == b64encode(credentials)
  IN  [Timestamp |-> timestamp,
       Authorization |-> <<"Basic ", encoded>>,
       ContentType |-> "application/json"]

\* debug_live_data.get_auth_headers hashing the token and the time stamp
\* without the colon between them
debug_live_data_get_auth_headers_no_colon(user_id, api_token, now) ==
  LET timestamp == Timestamp(now)
      hash_bytes == sha256_hexdigest(<<api_token, timestamp>>)
      credentials == <<user_id, ":", hash_bytes>>
      encoded == b64encode(credentials)
  IN  [Timestamp |-> timestamp,
       Authorization |-> <<"Basic ", encoded>>,
       ContentType |-> "application/json"]

\* debug_live_data.get_auth_headers
debug_live_data_get_auth_headers(user_id, api_token, now) ==
  LET timestamp == Timestamp(now)
      hash_bytes == sha256_hexdigest(<<api_token, ":", timestamp>>)
      credentials == <<user_id, ":", hash_bytes>>
      encoded == b64encode(credentials)
  IN  [Timestamp |-> timestamp,
       Authorization |-> <<"Basic ", encoded>>,
       ContentType |-> "application/json"]

BaseUrl == "https://www.quantconnect.com/api/v2/"

\* The url is a sequence of text pieces; "?" and "&" are pieces of their own.
WithUserId(url, user_id) ==
  IF "?" \in Range(url) THEN url \o <<"&", "userId=", user_id>>
  ELSE url \o <<"?", "userId=", user_id>>

\* What urlopen / read / json.loads do with one request:
\*   json        a 2xx response whose body parses, to the dict reply.body
\*   http_error  urllib.error.HTTPError
\*   url_error   urllib.error.URLError
\*   bad_json    a 2xx response whose body json.loads rejects
ReplyKinds == {"json", "http_error", "url_error", "bad_json"}
FailureKinds == {"http_error", "url_error", "bad_json"}

\* fetch_data.api_request: [url, headers, result] or [url, headers, exception]
api_request(endpoint, user_id, api_token, now, reply) ==
  LET headers == fetch_data_get_auth_headers(user_id, api_token, now)
      url == WithUserId(<<BaseUrl>> \o endpoint, user_id)
      sent == [url |-> url, headers |-> headers, kind |-> reply.kind]
  IN  CASE reply.kind = "json" -> sent @@ [result |-> reply.body]
        [] reply.kind = "http_error" ->
             sent @@ [result |-> [success |-> FALSE, errors |-> "HTTP"]]
        [] reply.kind = "url_error" ->
             sent @@ [result |-> [success |-> FALSE, errors |-> "URL"]]
        [] OTHER -> sent @@ [exception |-> "JSONDecodeError"]

Success(result) == Get(result, "success", FALSE)

\* Each fetch_* returns [calls, value] or, when api_request raises,
\* [calls, exception]; calls are the api_request calls it made.
\* fetch_authenticate taking a missing success field for a success
fetch_authenticate_default_true(user_id, api_token, now, reply) ==
  LET r == api_request(<<"authenticate">>, user_id, api_token, now, reply)
  IN  IF Raised(r) THEN [calls |-> <<r>>, exception |-> r.exception]
      ELSE [calls |-> <<r>>, value |-> Get(r.result, "success", TRUE)]

fetch_authenticate(user_id, api_token, now, reply) ==
  LET r == api_request(<<"authenticate">>, user_id, api_token, now, reply)
  IN  IF Raised(r) THEN [calls |-> <<r>>, exception |-> r.exception]
      ELSE [calls |-> <<r>>, value |-> Get(r.result, "success", FALSE)]

fetch_projects(user_id, api_token, now, reply) ==
  LET r == api_request(<<"projects/read">>, user_id, api_token, now, reply)
  IN  IF Raised(r) THEN [calls |-> <<r>>, exception |-> r.exception]
      ELSE IF ~Success(r.result) THEN [calls |-> <<r>>, value |-> <<>>]
      ELSE [calls |-> <<r>>, value |-> Get(r.result, "projects", <<>>)]

fetch_live_list(user_id, api_token, now, reply) ==
  LET r == api_request(<<"live/list">>, user_id, api_token, now, reply)
  IN  IF Raised(r) THEN [calls |-> <<r>>, exception |-> r.exception]
      ELSE IF ~Success(r.result) THEN [calls |-> <<r>>, value |-> <<>>]
      ELSE [calls |-> <<r>>, value |-> Get(r.result, "live", <<>>)]

\* fetch_live_details asks with the deployId first (lines 96-97); the value
\* is there when that answer is a success, otherwise retry is TRUE.
live_details_of(result) == Get(result, "live", Get(result, "LiveResults", EmptyDict))

fetch_live_details_first(project_id, deploy_id, user_id, api_token, now, reply) ==
  LET r == api_request(<<"live/read", "&", "projectId=", ToString(project_id),
                         "&", "deployId=", deploy_id>>, user_id, api_token, now, reply)
  IN  IF Raised(r) THEN [calls |-> <<r>>, exception |-> r.exception]
      ELSE IF ~Success(r.result) THEN [calls |-> <<r>>, retry |-> TRUE]
      ELSE [calls |-> <<r>>, retry |-> FALSE, value |-> live_details_of(r.result)]

\* the second request of fetch_live_details asking the first one's url again
fetch_live_details_alt_same_url(project_id, user_id, api_token, now, reply) ==
  LET r == api_request(<<"live/read", "&", "projectId=", ToString(project_id),
                         "&", "deployId=", "d1">>, user_id, api_token, now, reply)
  IN  IF Raised(r) THEN [calls |-> <<r>>, exception |-> r.exception]
      ELSE IF ~Success(r.result) THEN [calls |-> <<r>>, value |-> EmptyDict]
      ELSE [calls |-> <<r>>, value |-> live_details_of(r.result)]

\* ... and, after an answer that is no success, once more without the
\* deployId (lines 98-103).
fetch_live_details_alt(project_id, user_id, api_token, now, reply) ==
  LET r == api_request(<<"live/read", "&", "projectId=", ToString(project_id)>>,
                       user_id, api_token, now, reply)
  IN  IF Raised(r) THEN [calls |-> <<r>>, exception |-> r.exception]
      ELSE IF ~Success(r.result) THEN [calls |-> <<r>>, value |-> EmptyDict]
      ELSE [calls |-> <<r>>, value |-> live_details_of(r.result)]

fetch_backtests(project_id, user_id, api_token, now, reply) ==
  LET r == api_request(<<"backtests/read", "&", "projectId=", ToString(project_id)>>,
                       user_id, api_token, now, reply)
  IN  IF Raised(r) THEN [calls |-> <<r>>, exception |-> r.exception]
      ELSE IF ~Success(r.result) THEN [calls |-> <<r>>, value |-> <<>>]
      ELSE [calls |-> <<r>>, value |-> Get(r.result, "backtests", <<>>)]

fetch_backtest_details(project_id, backtest_id, user_id, api_token, now, reply) ==
  LET r == api_request(<<"backtests/read", "&", "projectId=", ToString(project_id),
                         "&", "backtestId=", backtest_id>>, user_id, api_token, now, reply)
  IN  IF Raised(r) THEN [calls |-> <<r>>, exception |-> r.exception]
      ELSE IF ~Success(r.result) THEN [calls |-> <<r>>, value |-> EmptyDict]
      ELSE [calls |-> <<r>>, value |-> Get(r.result, "backtest", EmptyDict)]

\* One try block of test_api: the request, and which of urlopen's failures
\* the except clauses of that block catch.  [url, headers, kind] plus result
\* (the parsed body), caught (an except clause ran) or exception.
test_api_request(endpoint, user_id, api_token, now, reply, caught) ==
  LET headers == test_credentials_get_auth_headers(user_id, api_token, now)
      url == <<BaseUrl>> \o endpoint \o <<"?", "userId=", user_id>>
      sent == [url |-> url, headers |-> headers, kind |-> reply.kind]
  IN  CASE reply.kind = "json" -> sent @@ [result |-> reply.body]
        [] reply.kind \in caught -> sent @@ [result |-> EmptyDict, caught |-> TRUE]
        [] reply.kind = "http_error" -> sent @@ [exception |-> "HTTPError"]
        [] reply.kind = "url_error" -> sent @@ [exception |-> "URLError"]
        [] OTHER -> sent @@ [exception |-> "JSONDecodeError"]

\* debug_live_data.api_get: only HTTPError is caught
api_get(endpoint, user_id, api_token, now, reply) ==
  LET url == WithUserId(<<BaseUrl>> \o endpoint, user_id)
      headers == debug_live_data_get_auth_headers(user_id, api_token, now)
      sent == [url |-> url, headers |-> headers, kind |-> reply.kind]
  IN  CASE reply.kind = "json" -> sent @@ [result |-> reply.body]
        [] reply.kind = "http_error" -> sent @@ [result |-> [error |-> "HTTP", body |-> ""]]
        [] reply.kind = "url_error" -> sent @@ [exception |-> "URLError"]
        [] OTHER -> sent @@ [exception |-> "JSONDecodeError"]

\* the five endpoints main asks for each algorithm, in order; {None} is
\* formatted as the text None
PyText(s) == IF s = "" THEN "None" ELSE s
debug_endpoint(step, algo) ==
  LET pid == Get(algo, "projectId", 0)
      project == IF pid = 0 THEN "None" ELSE ToString(pid)
      deploy == PyText(Get(algo, "deployId", ""))
  IN  CASE step = 1 -> <<"live/read", "?", "projectId=", project>>
        [] step = 2 -> <<"live/read", "?", "projectId=", project, "&", "deployId=", deploy>>
        [] step = 3 -> <<"live/orders/read", "?", "projectId=", project>>
        [] step = 4 -> <<"live/portfolio/read", "?", "projectId=", project>>
        [] OTHER -> <<"live/results/read", "?", "projectId=", project, "&", "deployId=", deploy>>

\* ------------------------------------------------------- what the API says
Min(a, b) == IF a < b THEN a ELSE b
\* A live algorithm may call for two live/read requests, a project for one
\* backtests/read, a backtest for one detail request.
SeqsUpTo(S, n) == UNION {[1..k -> S] : k \in 0..n}
Replies(bodies) ==
  {[kind |-> "json", body |-> b] : b \in bodies} \cup {[kind |-> k] : k \in FailureKinds}

ProjectIds == {1, 2, 3}
UserIds == {"7"}
ApiTokens == {"tok"}
Unset == "<unset>"              \* os.environ.get of a variable that is not set

ResultGood ==
  [statistics |-> ("Sharpe Ratio" :> PyStr(<<"5">>) @@ "Total Trades" :> PyNum(5)),
   charts |-> ("Strategy Equity" :>
                 [series |-> [Equity |-> [values |-> << <<"dict", [x |-> 1, y |-> 5]>> >>]]])]
ResultNaN == [statistics |-> ("Total Trades" :> PyStr(<<"n", "a", "n">>))]
Results == {ResultGood, ResultNaN}

AuthBodies == {[success |-> TRUE], [success |-> FALSE], EmptyDict}

AlgoSet ==
  {[projectId |-> 1, projectName |-> "Live", deployId |-> "d1", status |-> "Running"],
   [projectId |-> 2, deployId |-> "d2"],
   [deployId |-> "d1", status |-> "Stopped"]}
LiveListBodies(n) ==
  {[success |-> TRUE, live |-> l] : l \in SeqsUpTo(AlgoSet, n)}
  \cup {[success |-> TRUE], [success |-> FALSE]}

LiveReadBodies ==
  {[success |-> TRUE, live |-> r] : r \in Results}
  \cup {[success |-> TRUE, LiveResults |-> ResultGood], [success |-> TRUE], [success |-> FALSE]}

ProjectSet == {[projectId |-> 1, name |-> "P"], [projectId |-> 3]}
ProjectsBodies(n) ==
  {[success |-> TRUE, projects |-> l] : l \in SeqsUpTo(ProjectSet, n)}
  \cup {[success |-> TRUE], [success |-> FALSE]}

\* created is an ISO time stamp in the API; the model keeps its rank, and 0
\* is the rank of the default "" of bt.get("created", "").
BtSet ==
  {[backtestId |-> "b1", completed |-> TRUE, name |-> "BT"],
   [backtestId |-> "b2", completed |-> TRUE, created |-> 2],
   [backtestId |-> "b3", completed |-> FALSE, created |-> 2],
   [completed |-> TRUE, created |-> 3]}
\* the API lists a backtest of a project once: the lists of at most n of the
\* backtests above, in any order
RECURSIVE BtLists(_)
BtLists(n) ==
  IF n = 0 THEN {<<>>}
  ELSE LET shorter == BtLists(n - 1)
       IN  shorter \cup UNION {{Append(l, bt) : bt \in BtSet \ Range(l)} : l \in shorter}
BacktestsBodies(n) ==
  {[success |-> TRUE, backtests |-> l] : l \in BtLists(n)}
  \cup {[success |-> TRUE], [success |-> FALSE]}

BacktestsReplies == [n \in 0..MaxBacktests |-> Replies(BacktestsBodies(n))]

BacktestBodies ==
  {[success |-> TRUE, backtest |-> r] : r \in Results} \cup {[success |-> FALSE]}

\* sorted(backtests, key=created, reverse=True): stable, so equal keys keep
\* their order
RECURSIVE InsertDesc(_, _)
InsertDesc(sorted, bt) ==
  IF sorted = <<>> THEN <<bt>>
  ELSE IF Get(Head(sorted), "created", 0) >= Get(bt, "created", 0)
       THEN <<Head(sorted)>> \o InsertDesc(Tail(sorted), bt)
       ELSE <<bt>> \o sorted

RECURSIVE SortedDesc(_)
SortedDesc(l) ==
  IF l = <<>> THEN <<>> ELSE InsertDesc(SortedDesc(SubSeq(l, 1, Len(l) - 1)), l[Len(l)])

\* sorted(...) without the [:3]
newest_backtests_no_limit(l) == SortedDesc(l)

\* sorted(...)[:3]
newest_backtests(l) == SubSeq(SortedDesc(l), 1, Min(3, Len(l)))

\* ------------------------------------------------------------------ state
VARIABLES
  script,              \* which of the three scripts runs
  argc,                \* len(sys.argv)
  user_id, api_token,  \* QC_USER_ID / QC_API_TOKEN, or argv[1] / argv[2]
  project_id,          \* QC_PROJECT_ID
  pc,                  \* the script's position
  clock,               \* time.time(), in half seconds
  requests,            \* the requests sent so far: [url, fetch], in order
  lastCall,            \* the latest request, its headers and what came of it
  auth_success,        \* "yes"/"no" once authenticate was answered
  items,               \* follow-up requests the lists received so far call for
  live_algos, live_idx, live_project_ids, deploy_id,
  projects, proj_idx,
  bt_list,             \* what fetch_backtests returned, while its loop runs
  backtests, bt_idx,   \* its three newest, and the one the loop is at, likewise
  dashboard_projects,  \* dashboard_data["projects"]
  project_data,
  fileWrites,          \* how often dashboard.json was written
  exitStatus,          \* process exit status, -1 while running
  exception,           \* the uncaught exception that ended the run, or ""
  stat_result, stat_out  \* extract_performance_stats alone: input and output

envVars == <<script, argc, user_id, api_token, project_id>>
httpVars == <<clock, requests, lastCall>>
liveVars == <<live_algos, live_idx, live_project_ids, deploy_id>>
projVars == <<projects, proj_idx, bt_list, backtests, bt_idx>>
outVars == <<dashboard_projects, project_data>>
endVars == <<fileWrites, exitStatus, exception>>
statVars == <<stat_result, stat_out>>
vars == <<envVars, pc, httpVars, auth_success, items, liveVars, projVars, outVars,
          endVars, statVars>>

LiveNone == EmptyDict        \* "live": None
IsNone(d) == DOMAIN d = {}

Locals0 ==
  /\ clock = 1 /\ requests = <<>> /\ lastCall = EmptyDict
  /\ auth_success = "" /\ items = 0
  /\ live_algos = <<>> /\ live_idx = 0 /\ live_project_ids = {} /\ deploy_id = ""
  /\ projects = <<>> /\ proj_idx = 0 /\ bt_list = <<>> /\ backtests = <<>> /\ bt_idx = 0
  /\ dashboard_projects = <<>> /\ project_data = EmptyDict
  /\ fileWrites = 0 /\ exitStatus = -1 /\ exception = ""

InitFetchData ==
  /\ script = "fetch_data" /\ argc = 1 /\ pc = "main"
  /\ user_id \in UserIds \cup {Unset, ""}
  /\ api_token \in ApiTokens \cup {Unset}
  /\ project_id \in {Unset, "1"}
  /\ Locals0
  /\ stat_result = EmptyDict /\ stat_out = EmptyDict

\* main, lines 274-287: write data/dashboard.json, print the summary and
\* return, which ends the process with status 0
WriteOutput == pc' = "exit" /\ exitStatus' = 0 /\ fileWrites' = fileWrites + 1 /\ exception' = ""

\* sys.exit(status), or the interpreter ending on an uncaught exception
Exit(status) == pc' = "exit" /\ exitStatus' = status /\ exception' = "" /\ fileWrites' = fileWrites
Crash(exc) == pc' = "exit" /\ exitStatus' = 1 /\ exception' = exc /\ fileWrites' = fileWrites
Continue(next) == pc' = next /\ UNCHANGED endVars

\* what is kept of a call: who made it, its headers, what urlopen did, and
\* whether it raised or what success it returned
CallSummary(fn, call) ==
  [fn |-> fn, headers |-> call.headers, kind |-> call.kind, raised |-> Raised(call),
   success |-> IF Raised(call) THEN FALSE ELSE Success(call.result)]

\* the bookkeeping of the api_request calls of one fetch
Sent(f, label, now) ==
  /\ clock' = now
  /\ requests' = requests \o [i \in 1..Len(f.calls) |-> [url |-> f.calls[i].url, fetch |-> label]]
  /\ lastCall' = CallSummary("api_request", f.calls[Len(f.calls)])

NotStr(s) == s \in {Unset, ""}       \* not s, for s a string or None

\* main, lines 175-186
CheckCredentials ==
  /\ script = "fetch_data" /\ pc = "main"
  /\ IF NotStr(user_id) \/ NotStr(api_token) THEN Exit(1) ELSE Continue("authenticate")
  /\ UNCHANGED <<envVars, httpVars, auth_success, items, liveVars, projVars, outVars, statVars>>

\* main, lines 188-198
Authenticate ==
  /\ script = "fetch_data" /\ pc = "authenticate"
  /\ \E now \in clock..MaxClock, reply \in Replies(AuthBodies) :
       LET f == fetch_authenticate(user_id, api_token, now, reply) IN
       /\ Sent(f, <<"authenticate", 0, 0>>, now)
       /\ auth_success' = IF reply.kind = "json" /\ Success(reply.body) THEN "yes" ELSE "no"
       /\ IF Raised(f) THEN Crash(f.exception)
          ELSE IF ~f.value THEN Exit(1)
          ELSE Continue("live_list")
  /\ dashboard_projects' = <<>>
  /\ UNCHANGED <<envVars, items, liveVars, projVars, project_data, statVars>>

\* main, lines 207-210: the loop passes over algorithms without a projectId
RECURSIVE next_live(_, _)
next_live(algos, k) ==
  IF k > Len(algos) \/ Get(algos[k], "projectId", 0) # 0 THEN k
  ELSE next_live(algos, k + 1)

\* main, lines 207-221 and 242-243: the live loop goes on with algorithm k,
\* up to its request for the live details, or ends (and with QC_PROJECT_ID
\* set the snapshot is written); data is what project_data holds then
EnterLive(algos, k, data) ==
  /\ live_idx' = k
  /\ IF k > Len(algos)
     THEN /\ IF NotStr(project_id) THEN Continue("projects_read") ELSE WriteOutput
          /\ project_data' = data
          /\ UNCHANGED <<live_project_ids, deploy_id>>
     ELSE LET algo == algos[k]
              pid == algo["projectId"]
          IN  /\ Continue("live_read")
              /\ live_project_ids' = live_project_ids \cup {pid}
              /\ project_data' =
                   [id |-> pid,
                    name |-> Get(algo, "projectName", "Project " \o ToString(pid)),
                    backtests |-> <<>>,
                    live |-> LiveNone]
              /\ deploy_id' = Get(algo, "deployId", "")

\* main, lines 200-221
LiveList ==
  /\ script = "fetch_data" /\ pc = "live_list"
  /\ \E now \in clock..MaxClock,
        reply \in Replies(LiveListBodies(Min(MaxLive, (MaxFollowUps - items) \div 2))) :
       LET f == fetch_live_list(user_id, api_token, now, reply) IN
       /\ Sent(f, <<"live/list", 0, 0>>, now)
       /\ IF Raised(f)
          THEN Crash(f.exception) /\ UNCHANGED <<items, liveVars, project_data>>
          ELSE /\ live_algos' = f.value
               /\ items' = items + 2 * Len(f.value)
               /\ EnterLive(f.value, next_live(f.value, 1), project_data)
  /\ UNCHANGED <<envVars, auth_success, projVars, dashboard_projects, statVars>>

\* main, lines 224-238: the live record from the details, or the fallback
live_record(algo, deploy, live_details) ==
  IF ~IsNone(live_details)
  THEN LET stats == extract_performance_stats(live_details)
       IN  IF Raised(stats) THEN stats
           ELSE [status |-> Get(algo, "status", "Unknown"), deployId |-> deploy] @@ stats
  ELSE [status |-> Get(algo, "status", "Unknown"),
        deployId |-> deploy,
        totalReturn |-> PyNum(0),
        sharpeRatio |-> PyNum(0),
        maxDrawdown |-> PyNum(0),
        winRate |-> PyNum(0),
        equityCurve |-> <<>>]

\* main, lines 224-240, and on to the next algorithm
FinishLive(live_details) ==
  LET live == live_record(live_algos[live_idx], deploy_id, live_details)
      data == [project_data EXCEPT !.live = live]
  IN  IF Raised(live)
      THEN Crash(live.exception)
           /\ UNCHANGED <<live_idx, live_project_ids, deploy_id, outVars>>
      ELSE /\ dashboard_projects' = Append(dashboard_projects, data)
           /\ EnterLive(live_algos, next_live(live_algos, live_idx + 1), data)

\* main, line 223: the first request of fetch_live_details
LiveRead ==
  /\ script = "fetch_data" /\ pc = "live_read"
  /\ \E now \in clock..MaxClock, reply \in Replies(LiveReadBodies) :
       LET f == fetch_live_details_first(project_data.id, deploy_id, user_id, api_token,
                                         now, reply) IN
       /\ Sent(f, <<"live/read", live_idx, 0>>, now)
       /\ IF Raised(f)
          THEN Crash(f.exception)
               /\ UNCHANGED <<live_idx, live_project_ids, deploy_id, outVars>>
          ELSE IF f.retry
          THEN Continue("live_read_alt")
               /\ UNCHANGED <<live_idx, live_project_ids, deploy_id, outVars>>
          ELSE FinishLive(f.value)
  /\ UNCHANGED <<envVars, auth_success, items, live_algos, projVars, statVars>>

\* main, line 223: the second request of fetch_live_details
LiveReadAlt ==
  /\ script = "fetch_data" /\ pc = "live_read_alt"
  /\ \E now \in clock..MaxClock, reply \in Replies(LiveReadBodies) :
       LET f == fetch_live_details_alt(project_data.id, user_id, api_token, now, reply) IN
       /\ Sent(f, <<"live/read", live_idx, 0>>, now)
       /\ IF Raised(f)
          THEN Crash(f.exception)
               /\ UNCHANGED <<live_idx, live_project_ids, deploy_id, outVars>>
          ELSE FinishLive(f.value)
  /\ UNCHANGED <<envVars, auth_success, items, live_algos, projVars, statVars>>

\* line 247 never skipping a project
already_processed_as_live_never(pid, live_ids) == FALSE

\* main, line 247: the project was already processed as live
already_processed_as_live(pid, live_ids) == pid \in live_ids

\* line 271 keeping every project
has_backtest_records_always(data) == TRUE

\* main, line 271: only projects with backtest records are kept
has_backtest_records(data) == data.backtests # <<>>

\* main, lines 245-248: the loop passes over the projects that are live
RECURSIVE next_project(_, _, _)
next_project(projs, k, live_ids) ==
  IF k > Len(projs) \/ ~already_processed_as_live(projs[k]["projectId"], live_ids) THEN k
  ELSE next_project(projs, k + 1, live_ids)

\* main, lines 245-258: the project loop goes on with project k, up to its
\* request for the backtests, or ends and the snapshot is written
EnterProject(projs, k, data) ==
  /\ proj_idx' = k
  /\ IF k > Len(projs)
     THEN WriteOutput /\ project_data' = data
     ELSE LET project == projs[k]
              pid == project["projectId"]
          IN  /\ Continue("backtests_read")
              /\ project_data' =
                   [id |-> pid,
                    name |-> Get(project, "name", "Project " \o ToString(pid)),
                    backtests |-> <<>>,
                    live |-> LiveNone]

\* main, lines 244-258
ProjectsRead ==
  /\ script = "fetch_data" /\ pc = "projects_read"
  /\ \E now \in clock..MaxClock,
        reply \in Replies(ProjectsBodies(Min(MaxProjects, MaxFollowUps - items))) :
       LET f == fetch_projects(user_id, api_token, now, reply) IN
       /\ Sent(f, <<"projects/read", 0, 0>>, now)
       /\ IF Raised(f)
          THEN Crash(f.exception) /\ UNCHANGED <<items, projects, proj_idx, project_data>>
          ELSE /\ projects' = f.value
               /\ items' = items + Len(f.value)
               /\ EnterProject(f.value, next_project(f.value, 1, live_project_ids),
                               project_data)
  /\ UNCHANGED <<envVars, auth_success, liveVars, bt_list, backtests, bt_idx, dashboard_projects,
                 statVars>>

\* main, lines 261-263: the loop passes over backtests without an id or
\* not completed
RECURSIVE next_backtest(_, _)
next_backtest(bts, k) ==
  IF k > Len(bts) \/ (Get(bts[k], "backtestId", "") # "" /\ Get(bts[k], "completed", FALSE))
  THEN k
  ELSE next_backtest(bts, k + 1)

\* main, lines 261-272: the backtest loop over the three newest (bts) of the
\* fetched list goes on with backtest k, up to its request for the details,
\* or ends: the project is kept if it has records, and the project loop goes
\* on.  The sorted slice and the position in it are the loop's own, and
\* nothing reads the fetched list after its loop.
EnterBacktest(list, bts, k, data) ==
  /\ bt_idx' = IF k <= Len(bts) THEN k ELSE 0
  /\ backtests' = IF k <= Len(bts) THEN bts ELSE <<>>
  /\ bt_list' = IF k <= Len(bts) THEN list ELSE <<>>
  /\ IF k <= Len(bts)
     THEN /\ Continue("backtest_details")
          /\ project_data' = data
          /\ UNCHANGED <<proj_idx, dashboard_projects>>
     ELSE /\ dashboard_projects' =
               IF has_backtest_records(data)
               THEN Append(dashboard_projects, data) ELSE dashboard_projects
          /\ EnterProject(projects, next_project(projects, proj_idx + 1, live_project_ids),
                          data)

\* main, lines 260-263: fetch_backtests, then the three newest
BacktestsRead ==
  /\ script = "fetch_data" /\ pc = "backtests_read"
  /\ \E now \in clock..MaxClock,
        reply \in BacktestsReplies[Min(MaxBacktests, MaxFollowUps - items)] :
       LET f == fetch_backtests(project_data.id, user_id, api_token, now, reply) IN
       /\ Sent(f, <<"backtests/read", proj_idx, 0>>, now)
       /\ IF Raised(f)
          THEN Crash(f.exception)
               /\ UNCHANGED <<items, bt_list, backtests, bt_idx, proj_idx, outVars>>
          ELSE /\ items' = items + Len(f.value)
               /\ EnterBacktest(f.value, newest_backtests(f.value),
                                next_backtest(newest_backtests(f.value), 1), project_data)
  /\ UNCHANGED <<envVars, auth_success, liveVars, projects, statVars>>

\* main, lines 266-268: the backtest record
backtest_record(bt, details) ==
  LET stats == extract_performance_stats(details)
  IN  IF Raised(stats) THEN stats
      ELSE [name |-> Get(bt, "name", "Unnamed Backtest"), id |-> bt["backtestId"]] @@ stats

\* main, lines 264-272
BacktestDetails ==
  /\ script = "fetch_data" /\ pc = "backtest_details"
  /\ \E now \in clock..MaxClock, reply \in Replies(BacktestBodies) :
       LET bt == backtests[bt_idx]
           f == fetch_backtest_details(project_data.id, bt["backtestId"], user_id,
                                       api_token, now, reply)
           stats == backtest_record(bt, f.value)
           k == next_backtest(backtests, bt_idx + 1)
       IN
       /\ Sent(f, <<"backtest", proj_idx, bt_idx>>, now)
       /\ IF Raised(f)
          THEN Crash(f.exception)
               /\ UNCHANGED <<bt_list, backtests, bt_idx, proj_idx, outVars>>
          ELSE IF IsNone(f.value) THEN EnterBacktest(bt_list, backtests, k, project_data)
          ELSE IF Raised(stats)
          THEN Crash(stats.exception)
               /\ UNCHANGED <<bt_list, backtests, bt_idx, proj_idx, outVars>>
          ELSE EnterBacktest(bt_list, backtests, k,
                             [project_data EXCEPT !.backtests = Append(@, stats)])
  /\ UNCHANGED <<envVars, auth_success, items, liveVars, projects, statVars>>

\* ----------------------------------------------------- test_credentials.py
FlagBodies == {[success |-> TRUE], [success |-> FALSE], EmptyDict}

InitTestCredentials ==
  /\ script = "test_credentials" /\ pc = "tc_main"
  /\ \/ argc = 3 /\ user_id \in UserIds /\ api_token \in ApiTokens
     \/ argc = 1 /\ user_id = Unset /\ api_token = Unset
  /\ project_id = Unset
  /\ Locals0
  /\ stat_result = EmptyDict /\ stat_out = EmptyDict

SentBy(fn, call, label, now) ==
  /\ clock' = now
  /\ requests' = Append(requests, [url |-> call.url, fetch |-> label])
  /\ lastCall' = CallSummary(fn, call)

\* __main__, lines 128-135
TcMain ==
  /\ script = "test_credentials" /\ pc = "tc_main"
  /\ IF argc # 3 THEN Exit(1) ELSE Continue("tc_authenticate")
  /\ UNCHANGED <<envVars, httpVars, auth_success, items, liveVars, projVars, outVars, statVars>>

\* test_api, lines 47-73
TcAuthenticate ==
  /\ script = "test_credentials" /\ pc = "tc_authenticate"
  /\ \E now \in clock..MaxClock, reply \in Replies(FlagBodies) :
       LET r == test_api_request(<<"authenticate">>, user_id, api_token, now, reply,
                                 {"http_error", "url_error"}) IN
       /\ SentBy("test_api", r, <<"authenticate", 0, 0>>, now)
       /\ auth_success' = IF reply.kind = "json" /\ Success(reply.body) THEN "yes" ELSE "no"
       /\ IF Raised(r) THEN Crash(r.exception)
          ELSE IF "caught" \in DOMAIN r \/ ~Success(r.result) THEN Exit(1)
          ELSE Continue("tc_projects")
  /\ UNCHANGED <<envVars, items, liveVars, projVars, outVars, statVars>>

\* test_api, lines 75-97
TcProjects ==
  /\ script = "test_credentials" /\ pc = "tc_projects"
  /\ \E now \in clock..MaxClock, reply \in Replies(ProjectsBodies(1)) :
       LET r == test_api_request(<<"projects/read">>, user_id, api_token, now, reply,
                                 {"http_error"}) IN
       /\ SentBy("test_api", r, <<"projects/read", 0, 0>>, now)
       /\ IF Raised(r) THEN Crash(r.exception) ELSE Continue("tc_live")
  /\ UNCHANGED <<envVars, auth_success, items, liveVars, projVars, outVars, statVars>>

\* test_api, lines 99-125, and __main__, lines 137-138
TcLive ==
  /\ script = "test_credentials" /\ pc = "tc_live"
  /\ \E now \in clock..MaxClock, reply \in Replies(LiveListBodies(1)) :
       LET r == test_api_request(<<"live/list">>, user_id, api_token, now, reply,
                                 {"http_error"}) IN
       /\ SentBy("test_api", r, <<"live/list", 0, 0>>, now)
       /\ IF Raised(r) THEN Crash(r.exception) ELSE Exit(0)
  /\ UNCHANGED <<envVars, auth_success, items, liveVars, projVars, outVars, statVars>>

\* ------------------------------------------------------ debug_live_data.py
InitDebugLiveData ==
  /\ script = "debug_live_data" /\ pc = "dbg_main"
  /\ \/ argc = 3 /\ user_id \in UserIds /\ api_token \in ApiTokens
     \/ argc = 1 /\ user_id = Unset /\ api_token = Unset
  /\ project_id = Unset
  /\ Locals0
  /\ stat_result = EmptyDict /\ stat_out = EmptyDict

\* __main__, lines 143-148
DbgMain ==
  /\ script = "debug_live_data" /\ pc = "dbg_main"
  /\ IF argc # 3 THEN Exit(1) ELSE Continue("dbg_live_list")
  /\ UNCHANGED <<envVars, httpVars, auth_success, items, liveVars, projVars, outVars, statVars>>

\* main, lines 51-60
DbgLiveList ==
  /\ script = "debug_live_data" /\ pc = "dbg_live_list"
  /\ \E now \in clock..MaxClock, reply \in Replies(LiveListBodies(MaxLive)) :
       LET r == api_get(<<"live/list">>, user_id, api_token, now, reply) IN
       /\ SentBy("api_get", r, <<"live/list", 0, 0>>, now)
       /\ IF Raised(r) THEN Crash(r.exception) /\ UNCHANGED <<live_algos, live_idx, bt_idx>>
          ELSE IF ~Success(r.result) THEN Exit(0) /\ UNCHANGED <<live_algos, live_idx, bt_idx>>
          ELSE /\ live_algos' = Get(r.result, "live", <<>>)
               /\ live_idx' = 1
               /\ bt_idx' = 1
               /\ IF Get(r.result, "live", <<>>) = <<>> THEN Exit(0) ELSE Continue("dbg_algo")
  /\ UNCHANGED <<envVars, auth_success, items, live_project_ids, deploy_id, projects,
                 proj_idx, bt_list, backtests, outVars, statVars>>

\* main, lines 62-140: one of the five requests for the algorithm at hand
\* (bt_idx counts them), whose answer is only printed
DbgAlgoRequest ==
  /\ script = "debug_live_data" /\ pc = "dbg_algo"
  /\ \E now \in clock..MaxClock, reply \in Replies(FlagBodies) :
       LET r == api_get(debug_endpoint(bt_idx, live_algos[live_idx]), user_id, api_token,
                        now, reply) IN
       /\ SentBy("api_get", r, <<"debug", live_idx, bt_idx>>, now)
       /\ IF Raised(r) THEN Crash(r.exception) /\ UNCHANGED <<live_idx, bt_idx>>
          ELSE IF bt_idx < 5 THEN Continue("dbg_algo") /\ bt_idx' = bt_idx + 1 /\ UNCHANGED live_idx
          ELSE /\ live_idx' = live_idx + 1
               /\ bt_idx' = 1
               /\ IF live_idx = Len(live_algos) THEN Exit(0) ELSE Continue("dbg_algo")
  /\ UNCHANGED <<envVars, auth_success, items, live_algos, live_project_ids, deploy_id,
                 projects, proj_idx, bt_list, backtests, outVars, statVars>>

\* ------------------------------------- extract_performance_stats on its own
StatChars == {"5", "0", "-", "%", "$", ",", " ", "n", "a"}
StatStrings == SeqsUpTo(StatChars, MaxStrLen)
StatVals == {PyNone, PyNum(0), PyNum(5), PyNaN} \cup {PyStr(t) : t \in StatStrings}
SmallVals == {PyNone, PyNum(0), PyNum(5), PyStr(<<>>), PyStr(<<"5", "%">>), PyStr(<<"a">>)}
StatKeys ==
  {"Total Net Profit", "Net Profit", "Sharpe Ratio", "Drawdown", "Max Drawdown",
   "Win Rate", "Profit-Loss Ratio", "Total Trades", "Total Orders"}
StatDicts ==
  {k :> v : k \in StatKeys, v \in StatVals}
  \cup {(k1 :> v1) @@ (k2 :> v2) : k1 \in StatKeys, k2 \in StatKeys, v1 \in SmallVals,
                                    v2 \in SmallVals}
  \cup {EmptyDict}
StatInputs ==
  {[statistics |-> d] : d \in StatDicts}
  \cup {[Statistics |-> (k :> v)] : k \in StatKeys, v \in SmallVals}
  \cup {[statistics |-> (k :> v), runtimeStatistics |-> ("Total Net Profit" :> w)] :
          k \in {"Total Net Profit", "Net Profit"}, v \in SmallVals, w \in SmallVals}
  \cup {EmptyDict}

InitStats ==
  /\ script = "extract_performance_stats" /\ pc = "stats_call" /\ argc = 1
  /\ user_id = Unset /\ api_token = Unset /\ project_id = Unset
  /\ Locals0
  /\ stat_result \in StatInputs /\ stat_out = EmptyDict

\* one call of extract_performance_stats(stat_result)
ExtractStats ==
  /\ script = "extract_performance_stats" /\ pc = "stats_call"
  /\ stat_out' = extract_performance_stats(stat_result)
  /\ pc' = "stats_done"
  /\ UNCHANGED <<envVars, httpVars, auth_success, items, liveVars, projVars, outVars,
                 endVars, stat_result>>

NextStats == ExtractStats

SpecStats == InitStats /\ [][NextStats]_vars

Init == InitFetchData \/ InitTestCredentials \/ InitDebugLiveData

Next ==
  \/ CheckCredentials
  \/ Authenticate
  \/ LiveList
  \/ LiveRead
  \/ LiveReadAlt
  \/ ProjectsRead
  \/ BacktestsRead
  \/ BacktestDetails
  \/ TcMain
  \/ TcAuthenticate
  \/ TcProjects
  \/ TcLive
  \/ DbgMain
  \/ DbgLiveList
  \/ DbgAlgoRequest

Spec == Init /\ [][Next]_vars

\* ----------------------------------------------------------------- claims
Written == script = "fetch_data" /\ fileWrites > 0
FetchFailed == ~IsNone(lastCall) /\ lastCall.fn = "api_request" /\ lastCall.kind \in FailureKinds

\* C1: every failure of a request made through api_request (HTTP error,
\* connection error, unparseable body) comes back as a result with
\* success = False; none leaves api_request as an exception.
C1_FailuresBecomeResults ==
  FetchFailed => (~lastCall.raised /\ lastCall.success = FALSE)

\* C2: the snapshot is written only when both credentials are non-empty and
\* authenticate answered success; with a credential missing the process
\* exits 1 without any request, and when authenticate does not succeed it
\* exits 1 having sent authenticate only; no file in either case.
C2_WriteOnlyWhenAuthenticated ==
  script = "fetch_data" =>
    /\ fileWrites > 0 => (~NotStr(user_id) /\ ~NotStr(api_token) /\ auth_success = "yes")
    /\ (NotStr(user_id) \/ NotStr(api_token)) =>
         /\ requests = <<>> /\ fileWrites = 0
         /\ pc \in {"main", "exit"}
         /\ pc = "exit" => exitStatus = 1
    /\ auth_success = "no" =>
         /\ pc = "exit" /\ exitStatus = 1 /\ fileWrites = 0
         /\ Len(requests) = 1 /\ requests[1].fetch[1] = "authenticate"

C2_AuthenticateRefused ==
  /\ script = "fetch_data" /\ pc = "exit" /\ exitStatus = 1
  /\ auth_success = "no" /\ lastCall.kind = "json" /\ ~lastCall.raised

\* C3: once authenticate has succeeded, every run ends having written the
\* snapshot exactly once, whichever of the later requests fail.
C3_AlwaysWritesAfterAuth ==
  (script = "fetch_data" /\ auth_success = "yes" /\ pc = "exit") => fileWrites = 1

\* C4 (as claimed): no logical fetch sends more than one request.
SameFetch(i, j) == requests[i].fetch = requests[j].fetch
C4_OneRequestPerFetch ==
  script = "fetch_data" =>
    \A i, j \in DOMAIN requests : SameFetch(i, j) => i = j

\* C4 (amended): every logical fetch sends one request, except the live
\* details of one algorithm, which send a second request, without the
\* deployId, right after a first one that was answered without success.
C4_OneRequestOrLiveFallback ==
  script = "fetch_data" =>
    /\ \A i, j \in DOMAIN requests :
         (SameFetch(i, j) /\ i < j) =>
           /\ requests[i].fetch[1] = "live/read"
           /\ j = i + 1
           /\ "deployId=" \in Range(requests[i].url)
           /\ "deployId=" \notin Range(requests[j].url)
    /\ pc = "live_read_alt" => (~lastCall.raised /\ ~lastCall.success)

C4_LiveFallbackSent ==
  /\ script = "fetch_data"
  /\ \E i, j \in DOMAIN requests : i < j /\ SameFetch(i, j)

\* C5: every backtest record and every non-null live record of the written
\* snapshot has all the fixed output keys.
FixedKeys ==
  {"totalReturn", "sharpeRatio", "maxDrawdown", "winRate", "totalTrades", "profitFactor",
   "equityCurve"}
C5_RecordsHaveFixedKeys ==
  Written =>
    \A i \in DOMAIN dashboard_projects :
      LET p == dashboard_projects[i] IN
      /\ ~IsNone(p.live) => FixedKeys \subseteq DOMAIN p.live
      /\ \A k \in DOMAIN p.backtests : FixedKeys \subseteq DOMAIN p.backtests[k]

\* C6: extract_performance_stats returns for every input, and a numeric
\* field is 0 when its upstream value is missing, None or not a number
\* after dropping % $ , and blanks, and the parsed number otherwise.
ParsedOrZero(v) ==
  IF v[1] = "str"
  THEN LET f == PyFloat(Strip(Remove(v[2], {"%", "$", ","})))
       IN  IF f = ValueError THEN PyNum(0) ELSE f
  ELSE IF v[1] = "none" THEN PyNum(0) ELSE v
UpstreamStat(k) ==
  LET d == Get(stat_result, "statistics", Get(stat_result, "Statistics", EmptyDict))
  IN  Get(d, k, PyNone)
C6_StatsNeverRaise ==
  (script = "extract_performance_stats" /\ pc = "stats_done") =>
    /\ ~Raised(stat_out)
    /\ stat_out.sharpeRatio = ParsedOrZero(UpstreamStat("Sharpe Ratio"))
    /\ stat_out.winRate = ParsedOrZero(UpstreamStat("Win Rate"))
    /\ stat_out.profitFactor = ParsedOrZero(UpstreamStat("Profit-Loss Ratio"))

\* C7: with QC_PROJECT_ID set, every entry of the written snapshot has that
\* project id.
C7_OnlyTheChosenProject ==
  (Written /\ ~NotStr(project_id)) =>
    \A i \in DOMAIN dashboard_projects : ToString(dashboard_projects[i].id) = project_id

\* C8: every request of the three scripts carries a Timestamp header and
\* Authorization = Basic base64(userId:sha256(token:timestamp)) over that same
\* timestamp, made from the clock at the time of the request, and the three
\* get_auth_headers agree on the same user id, token and clock.
C8_AuthHeaders ==
  /\ ~IsNone(lastCall) =>
       /\ lastCall.headers.Timestamp = Timestamp(clock)
       /\ lastCall.headers.Authorization =
            <<"Basic ", b64encode(<<user_id, ":",
               sha256_hexdigest(<<api_token, ":", lastCall.headers.Timestamp>>)>>)>>
  /\ LET headers == fetch_data_get_auth_headers(user_id, api_token, clock) IN
       /\ headers = test_credentials_get_auth_headers(user_id, api_token, clock)
       /\ headers = debug_live_data_get_auth_headers(user_id, api_token, clock)

C8_LaterRequestNewTimestamp ==
  /\ Len(requests) >= 2 /\ ~IsNone(lastCall)
  /\ lastCall.headers.Timestamp = "1"
  /\ script = "debug_live_data"

\* C9 (as claimed): no project id is in more than one entry of the written
\* snapshot.
C9_UniqueProjectIds ==
  Written =>
    \A i, j \in DOMAIN dashboard_projects :
      dashboard_projects[i].id = dashboard_projects[j].id => i = j

\* C9 (amended): no project id is in both a live entry and a backtest-only
\* entry; an id has as many entries as live/list has deployments naming it
\* or, if it has none, at most as many as projects/read lists it.
Count(l, P(_)) == Cardinality({i \in DOMAIN l : P(l[i])})
EntriesOf(id) == Count(dashboard_projects, LAMBDA p : p.id = id)
C9_RepeatsOnlyAsListed ==
  Written =>
    /\ \A i, j \in DOMAIN dashboard_projects :
         dashboard_projects[i].id = dashboard_projects[j].id =>
           IsNone(dashboard_projects[i].live) = IsNone(dashboard_projects[j].live)
    /\ \A id \in ProjectIds :
         LET deployments == Count(live_algos, LAMBDA a : Get(a, "projectId", 0) = id)
             listed == Count(projects, LAMBDA q : q.projectId = id)
         IN  IF deployments > 0 THEN EntriesOf(id) = deployments
             ELSE EntriesOf(id) <= listed

C9_RepeatedId ==
  /\ Written
  /\ \E i, j \in DOMAIN dashboard_projects :
       /\ i < j /\ dashboard_projects[i].id = dashboard_projects[j].id
       /\ IsNone(dashboard_projects[i].live)

\* C10: every entry is a live entry (live record with status and deployId,
\* no backtests, no backtest request for its id) or a backtest-only entry
\* (live null, backtests non-empty); live entries come first; a listed
\* project whose id is live has no backtest-only entry.
BacktestRequestFor(id) ==
  \E i \in DOMAIN requests :
    /\ requests[i].url[2] = "backtests/read"
    /\ requests[i].url[5] = ToString(id)
LiveIds == {Get(live_algos[i], "projectId", 0) : i \in DOMAIN live_algos} \ {0}
C10_LiveThenBacktestOnly ==
  Written =>
    /\ \A i \in DOMAIN dashboard_projects :
         LET p == dashboard_projects[i] IN
         \/ /\ ~IsNone(p.live)
            /\ {"status", "deployId"} \subseteq DOMAIN p.live
            /\ p.backtests = <<>>
            /\ ~BacktestRequestFor(p.id)
         \/ /\ IsNone(p.live)
            /\ p.backtests # <<>>
            /\ p.id \notin LiveIds
    /\ \A i, j \in DOMAIN dashboard_projects :
         (i < j /\ IsNone(dashboard_projects[i].live)) => IsNone(dashboard_projects[j].live)

C10_BothKinds ==
  /\ Written
  /\ \E i, j \in DOMAIN dashboard_projects :
       ~IsNone(dashboard_projects[i].live) /\ IsNone(dashboard_projects[j].live)
  /\ \E q \in Range(projects) : q.projectId \in LiveIds

\* C11: a backtest-only entry has at most 3 records, in descending order of
\* created, each with the id of one of the 3 most recently created backtests
\* of the fetched list that has a backtestId, is completed and whose details
\* were requested; no details are requested for a backtest outside those 3,
\* so the records are no more than the completed ones among the 3, whatever
\* older backtests the list has.  Entries once appended stay as they are.
Created(bt) == Get(bt, "created", 0)
Fetchable(bt) == Get(bt, "backtestId", "") # "" /\ Get(bt, "completed", FALSE)
\* positions of the 3 most recently created of l; of two created at the same
\* time the one listed first is the newer
NewestThree(l) ==
  {i \in DOMAIN l :
     Cardinality({j \in DOMAIN l :
                    \/ Created(l[j]) > Created(l[i])
                    \/ Created(l[j]) = Created(l[i]) /\ j < i}) < 3}
FetchableNewest(l) == {i \in NewestThree(l) : Fetchable(l[i])}
DetailsRequested(log, pidx, pid, bt_id) ==
  \E r \in DOMAIN log :
    /\ log[r].fetch[1] = "backtest" /\ log[r].fetch[2] = pidx
    /\ SubSeq(log[r].url, 2, 8) = <<"backtests/read", "&", "projectId=", ToString(pid),
                                    "&", "backtestId=", bt_id>>
RecordsFromNewest(records, l, log, pidx, pid) ==
  /\ Len(records) <= 3
  /\ Len(records) <= Cardinality(FetchableNewest(l))
  /\ \A k \in DOMAIN records :
       \E i \in FetchableNewest(l) :
         /\ l[i]["backtestId"] = records[k].id
         /\ DetailsRequested(log, pidx, pid, records[k].id)
  /\ \A k1, k2 \in DOMAIN records :
       k1 < k2 =>
         \E i1, i2 \in FetchableNewest(l) :
           /\ l[i1]["backtestId"] = records[k1].id
           /\ l[i2]["backtestId"] = records[k2].id
           /\ i1 # i2
           /\ Created(l[i1]) >= Created(l[i2])
OnlyNewestRequested(log, l, pidx) ==
  \A r \in DOMAIN log :
    (log[r].fetch[1] = "backtest" /\ log[r].fetch[2] = pidx) =>
      \E i \in FetchableNewest(l) : log[r].url[8] = l[i]["backtestId"]
C11_BacktestStep ==
  (script = "fetch_data" /\ pc = "backtest_details") =>
    /\ OnlyNewestRequested(requests', bt_list, proj_idx)
    /\ RecordsFromNewest(project_data.backtests, bt_list, requests, proj_idx,
                         project_data.id)
    /\ dashboard_projects' # dashboard_projects =>
         LET entry == dashboard_projects'[Len(dashboard_projects')] IN
         /\ Len(dashboard_projects') = Len(dashboard_projects) + 1
         /\ IsNone(entry.live) /\ entry.id = project_data.id
         /\ RecordsFromNewest(entry.backtests, bt_list, requests', proj_idx, entry.id)
C11_EntriesStay ==
  /\ Len(dashboard_projects') >= Len(dashboard_projects)
  /\ SubSeq(dashboard_projects', 1, Len(dashboard_projects)) = dashboard_projects
C11_NewestThreeCompleted == [][C11_BacktestStep /\ C11_EntriesStay]_vars

\* the loop is at the only completed backtest among the 3 newest of a list
\* of 4, whose oldest is completed and will not be looked at
C11_OlderCompletedLeftOut ==
  /\ script = "fetch_data" /\ pc = "backtest_details"
  /\ Len(bt_list) = 4
  /\ \E i \in DOMAIN bt_list : i \notin NewestThree(bt_list) /\ Fetchable(bt_list[i])
  /\ \E i \in NewestThree(bt_list) : ~Fetchable(bt_list[i])
  /\ Cardinality(FetchableNewest(bt_list)) = 1
  /\ \E i \in FetchableNewest(bt_list) : bt_list[i] = backtests[bt_idx]

\* C12: test_credentials.py ends with status 0 exactly when authenticate was
\* answered with success true; its requests are authenticate, projects/read,
\* live/list in this order, authenticate alone when it fails; and after a
\* successful authenticate the run gets to all three requests and to status
\* 0 whether projects/read and live/list are answered with success, without,
\* with an HTTP error or with a connection error (bodies that do not parse
\* are left aside: the claim does not name them).
TcOrder == <<"authenticate", "projects/read", "live/list">>
C12_ExitZeroIffAuthenticated ==
  script = "test_credentials" =>
    /\ Len(requests) <= 3
    /\ \A i \in DOMAIN requests : requests[i].fetch[1] = TcOrder[i]
    /\ auth_success = "no" => Len(requests) = 1
    /\ (pc = "exit" /\ (IsNone(lastCall) \/ lastCall.kind # "bad_json")) =>
         /\ exitStatus = 0 <=> auth_success = "yes"
         /\ auth_success = "yes" => Len(requests) = 3

====
